---------------------------- MODULE Spec2Model ----------------------------
(***************************************************************************)
(* Model of the frodo secure storage engine:                               *)
(*   crates/frodo-storage/src/key_provider.rs      (key providers)         *)
(*   crates/frodo-storage/src/secure_file_store.rs (EncryptedFileStore)    *)
(*   crates/frodo-core/src/storage/secure_store.rs (InMemorySecureStore)   *)
(*   crates/frodo-task/src/lib.rs                  (SecureStoreTaskRepo)   *)
(*   crates/frodo-core/src/tasks.rs                (Task)                  *)
(*                                                                         *)
(* Text is a sequence of one-character strings, bytes are 0..255.          *)
(* AES-256-GCM is modelled symbolically (an ideal AEAD): a ciphertext      *)
(* opens only under the key and the nonce that sealed it.  OsRng is        *)
(* modelled as a source of fresh values: the i-th draw differs from every  *)
(* other draw.                                                             *)
(***************************************************************************)
EXTENDS Integers, Sequences, FiniteSets, TLC

VARIABLES
    dirs,       \* directories that exist (set of path texts)
    files,      \* regular files: path text -> content (sequence of chunks)
    keyring,    \* OS secret store entry (service, account): NoEntry or a text
    slot,       \* InMemoryKeyProvider.inner: NoKey or a KeyMaterial
    inner,      \* InMemorySecureStore.inner: logical key -> masked bytes
    poisoned,   \* whether a thread has panicked holding the mutex of the
                \* key provider, of the in-memory store: [provider, store]
    config,     \* how the store was built and how its callers are run:
                \* [provider: "keyring" | "memory", store: "file" | "mem",
                \*  sequential: BOOLEAN, keys, values: the callers' inputs,
                \*  puts: how many put calls the run follows]
    caller,     \* per caller: position in the running operation and its locals
    ret,        \* the operation that returned last, and its result
    rng,        \* number of values drawn from OsRng so far: [keys, nonces]
    ghost,      \* history kept for the properties only
    repo        \* SecureStoreTaskRepo: the call that returned last, the calls
                \* of concurrent callers that have loaded and not yet saved,
                \* and the UUIDs drawn, the puts made and the creates that
                \* returned Ok so far

vars == <<dirs, files, keyring, slot, inner, poisoned, config, caller, ret, rng,
          ghost, repo>>

----------------------------------------------------------------------------
(* Bounds of the model *)

NProcs == 2      \* concurrent callers
MaxPuts == 3     \* put calls started in one behaviour
MaxKeys == 2     \* keys generated before the environment stops losing keys

(* Program constants *)

KeyLen == 32     \* KeyMaterial.bytes: [u8; 32]
NonceLen == 12   \* Aes256Gcm nonce (96 bit)
MASK_BYTE == 165 \* 0xA5

Procs == 1..NProcs

----------------------------------------------------------------------------
(* Base64 (base64::engine::general_purpose) *)

UpperChars == <<"A","B","C","D","E","F","G","H","I","J","K","L","M",
                "N","O","P","Q","R","S","T","U","V","W","X","Y","Z">>
LowerChars == <<"a","b","c","d","e","f","g","h","i","j","k","l","m",
                "n","o","p","q","r","s","t","u","v","w","x","y","z">>
DigitChars == <<"0","1","2","3","4","5","6","7","8","9">>

AlphaNum == UpperChars \o LowerChars \o DigitChars

\* Every character a text of the model is written with.
\* "^" stands for any character that is none of the others.
Chars == {AlphaNum[i] : i \in 1..Len(AlphaNum)}
             \cup {"-", "_", "+", "/", "=", ".", "!", "\\", "\"", "^"}

\* The sextet each character stands for in an alphabet, -1 when not in it.
SextetTable(alphabet) ==
    [c \in Chars |->
        IF \E i \in 1..Len(alphabet) : alphabet[i] = c
        THEN (CHOOSE i \in 1..Len(alphabet) : alphabet[i] = c) - 1
        ELSE -1]

\* The engines the program uses: alphabet, padding, and the decode table.
URL_SAFE_NO_PAD ==
    [alphabet |-> AlphaNum \o <<"-", "_">>, pad |-> FALSE,
     sextet   |-> SextetTable(AlphaNum \o <<"-", "_">>)]
STANDARD ==
    [alphabet |-> AlphaNum \o <<"+", "/">>, pad |-> TRUE,
     sextet   |-> SextetTable(AlphaNum \o <<"+", "/">>)]

RECURSIVE Sextets(_)
Sextets(bytes) ==
    IF Len(bytes) = 0 THEN <<>>
    ELSE IF Len(bytes) = 1 THEN
        << bytes[1] \div 4, (bytes[1] % 4) * 16 >>
    ELSE IF Len(bytes) = 2 THEN
        << bytes[1] \div 4,
           (bytes[1] % 4) * 16 + bytes[2] \div 16,
           (bytes[2] % 16) * 4 >>
    ELSE
        << bytes[1] \div 4,
           (bytes[1] % 4) * 16 + bytes[2] \div 16,
           (bytes[2] % 16) * 4 + bytes[3] \div 64,
           bytes[3] % 64 >> \o Sextets(SubSeq(bytes, 4, Len(bytes)))

Padding(n) ==
    IF n % 3 = 1 THEN <<"=", "=">> ELSE IF n % 3 = 2 THEN <<"=">> ELSE <<>>

\* Engine::encode
B64Encode(engine, bytes) ==
    LET s == Sextets(bytes)
    IN  [i \in 1..Len(s) |-> engine.alphabet[s[i] + 1]]
        \o (IF engine.pad THEN Padding(Len(bytes)) ELSE <<>>)

RECURSIVE Octets(_)
\* Bytes of a sequence of sextets whose length is not 1 mod 4.
Octets(s) ==
    IF Len(s) = 0 THEN <<>>
    ELSE IF Len(s) = 2 THEN << s[1] * 4 + s[2] \div 16 >>
    ELSE IF Len(s) = 3 THEN
        << s[1] * 4 + s[2] \div 16, (s[2] % 16) * 16 + s[3] \div 4 >>
    ELSE
        << s[1] * 4 + s[2] \div 16,
           (s[2] % 16) * 16 + s[3] \div 4,
           (s[3] % 4) * 64 + s[4] >> \o Octets(SubSeq(s, 5, Len(s)))

\* Number of trailing '=' of a text (at most two are looked at).
PadCount(text) ==
    IF Len(text) >= 2 /\ text[Len(text)] = "=" /\ text[Len(text) - 1] = "=" THEN 2
    ELSE IF Len(text) >= 1 /\ text[Len(text)] = "=" THEN 1
    ELSE 0

\* Engine::decode: [ok, bytes].  Strict: every symbol in the alphabet, no
\* impossible length, canonical trailing bits, canonical padding when padded
\* and no padding at all when not.
B64Decode(engine, text) ==
    LET np   == IF engine.pad THEN PadCount(text) ELSE 0
        body == SubSeq(text, 1, Len(text) - np)
        s    == [i \in 1..Len(body) |-> engine.sextet[body[i]]]
        r    == Len(body) % 4
        bad  == \/ \E i \in 1..Len(s) : s[i] < 0
                \/ r = 1
                \/ r = 2 /\ s[Len(s)] % 16 # 0
                \/ r = 3 /\ s[Len(s)] % 4 # 0
                \/ engine.pad /\ Len(text) % 4 # 0
    IN  IF bad THEN [ok |-> FALSE, bytes |-> <<>>]
        ELSE [ok |-> TRUE, bytes |-> Octets(s)]

----------------------------------------------------------------------------
(* Text and bytes *)

\* UTF-8 of a character (all of them are ASCII).
Utf8(c) ==
    IF \E i \in 1..26 : UpperChars[i] = c
    THEN 64 + (CHOOSE i \in 1..26 : UpperChars[i] = c)
    ELSE IF \E i \in 1..26 : LowerChars[i] = c
    THEN 96 + (CHOOSE i \in 1..26 : LowerChars[i] = c)
    ELSE IF \E i \in 1..10 : DigitChars[i] = c
    THEN 47 + (CHOOSE i \in 1..10 : DigitChars[i] = c)
    ELSE CASE c = "!" -> 33
           [] c = "\"" -> 34
           [] c = "+" -> 43
           [] c = "-" -> 45
           [] c = "." -> 46
           [] c = "/" -> 47
           [] c = "=" -> 61
           [] c = "\\" -> 92
           [] c = "^" -> 94
           [] c = "_" -> 95

\* The character of a code point.
CharOf(code) ==
    IF \E c \in Chars : Utf8(c) = code
    THEN CHOOSE c \in Chars : Utf8(c) = code
    ELSE "^"

AsBytes(text) == [i \in 1..Len(text) |-> Utf8(text[i])]

RECURSIVE XorBits(_, _, _)
XorBits(x, y, n) ==
    IF n = 0 THEN 0
    ELSE ((x + y) % 2) + 2 * XorBits(x \div 2, y \div 2, n - 1)

Xor8(x, y) == XorBits(x, y, 8)

----------------------------------------------------------------------------
(* Results: Result<_, SecureStoreError>, plus the outcome "the call panicked" *)

Ok(v)         == [tag |-> "Ok",       val |-> v,    key |-> <<>>, reason |-> ""]
NotFound(k)   == [tag |-> "NotFound", val |-> <<>>, key |-> k,    reason |-> ""]
Storage(why)  == [tag |-> "Storage",  val |-> <<>>, key |-> <<>>, reason |-> why]
Panic(why)    == [tag |-> "Panic",    val |-> <<>>, key |-> <<>>, reason |-> why]
NoResult      == [tag |-> "None",     val |-> <<>>, key |-> <<>>, reason |-> ""]

storage_err(err) == Storage(err)

----------------------------------------------------------------------------
(* Paths (std::path) and the file system *)

RootPath == <<"/", "d", "/", "r">>     \* EncryptedFileStore.root

\* The path without a trailing separator: the file the OS resolves it to.
Trim(path) ==
    IF Len(path) > 1 /\ path[Len(path)] = "/"
    THEN SubSeq(path, 1, Len(path) - 1) ELSE path

HasTrailingSlash(path) == Trim(path) # path

LastSlash(path) ==
    CHOOSE i \in 1..Len(path) :
        /\ path[i] = "/"
        /\ \A j \in (i + 1)..Len(path) : path[j] # "/"

\* PathBuf::join: joining the empty name leaves the base with a trailing '/'.
Join(base, name) == base \o <<"/">> \o name

\* Path::parent, for the absolute paths of the model.
Parent(path) ==
    LET t == Trim(path)
    IN  IF LastSlash(t) = 1 THEN <<"/">> ELSE SubSeq(t, 1, LastSlash(t) - 1)

\* fs::create_dir_all creates the directory and every missing ancestor.
Ancestors(path) ==
    LET t == Trim(path)
    IN  {t} \cup {SubSeq(t, 1, i - 1) : i \in {j \in 2..Len(t) : t[j] = "/"}}

IsDir(d, path)  == Trim(path) \in d
IsFile(f, path) == path \in DOMAIN f

WriteFile(f, path, content) ==
    [x \in DOMAIN f \cup {path} |-> IF x = path THEN content ELSE f[x]]
\* A removal that leaves the file where it is.
KeepFile(f, path) == f

RemoveFile(f, path) == [x \in DOMAIN f \ {path} |-> f[x]]

\* tempfile: ".tmp" and a random suffix, a name no file of the directory has.
TmpName(i) == <<".", "t", "m", "p", DigitChars[i]>>
TmpPath(f, parent) ==
    LET free == {i \in 1..Len(DigitChars) : Join(parent, TmpName(i)) \notin DOMAIN f}
    IN  Join(parent, TmpName(CHOOSE i \in free : \A j \in free : i <= j))

----------------------------------------------------------------------------
(* Key material (key_provider.rs) *)

NoKey == [id |-> "none", bytes |-> <<>>]
NoEntry == [present |-> FALSE, secret |-> <<>>]
Entry(secret) == [present |-> TRUE, secret |-> secret]

\* OsRng.fill_bytes: the i-th draw of 32 bytes.
RandomKeyBytes(i) == [j \in 1..KeyLen |-> (i * 37 + j * 7) % 256]

generate_key(i) == [id |-> "default", bytes |-> RandomKeyBytes(i)]

encode_key(material) == B64Encode(STANDARD, material.bytes)

\* [ok, material]: Err(KeyError::Decode) when the secret is not base64 of 32 bytes.
\* Mutant: the length of the decoded secret is not checked.
decode_key_any_length(secret) ==
    LET d == B64Decode(STANDARD, secret)
    IN  IF ~d.ok
        THEN [ok |-> FALSE, material |-> NoKey]
        ELSE [ok |-> TRUE, material |-> [id |-> "default", bytes |-> d.bytes]]

decode_key(secret) ==
    LET d == B64Decode(STANDARD, secret)
    IN  IF ~d.ok \/ Len(d.bytes) # KeyLen
        THEN [ok |-> FALSE, material |-> NoKey]
        ELSE [ok |-> TRUE, material |-> [id |-> "default", bytes |-> d.bytes]]

----------------------------------------------------------------------------
(* The blob codec (secure_file_store.rs) *)

\* The encoded form of the i-th nonce OsRng yields.  Any 12 bytes can come
\* out of the generator; the draws followed here differ from one another
\* (up to the 15th) and their encoding holds the characters u0041, which a
\* JSON parser reads as one escaped character when a backslash precedes them.
NonceText(i) ==
    <<"X", "u", "0", "0", "4", "1", "A", "A", "A", "A", "A", "A", "A", "A", "A",
      AlphaNum[((4 * i) % 60) + 1]>>

\* Mutant: the nonce does not come from the generator's next draw.
generate_nonce_fixed(i) == B64Decode(URL_SAFE_NO_PAD, NonceText(0)).bytes

\* Aes256Gcm::generate_nonce(&mut OsRng): the i-th draw of 12 bytes.
generate_nonce(i) == B64Decode(URL_SAFE_NO_PAD, NonceText(i)).bytes

\* cipher.encrypt(nonce, value): ciphertext and tag, sealed under key and nonce.
encrypt(material, nonce, value) ==
    [seal |-> "intact", key |-> material.bytes, nonce |-> nonce, pt |-> value]

\* cipher.decrypt(nonce, ciphertext): opens only what was sealed under the
\* same key and nonce and has not been altered since.
decrypt(material, nonce, ct) ==
    IF ct.seal = "intact" /\ ct.key = material.bytes /\ ct.nonce = nonce
    THEN Ok(ct.pt)
    ELSE Storage("decrypt failed")

\* URL_SAFE_NO_PAD.encode / decode of the (symbolic) ciphertext bytes.
CtEncode(ct) == [b64 |-> TRUE, of |-> ct]
CtDecode(text) == [ok |-> text.b64, bytes |-> text.of]

NoCt   == [seal |-> "none", key |-> <<>>, nonce |-> <<>>, pt |-> <<>>]
NoBlob == [nonce |-> <<>>, ciphertext |-> CtEncode(NoCt)]

RECURSIVE JsonEscape(_)
\* serde_json writing a string: quote and backslash are escaped.
JsonEscape(text) ==
    IF text = <<>> THEN <<>>
    ELSE (IF text[1] \in {"\"", "\\"} THEN <<"\\", text[1]>> ELSE <<text[1]>>)
             \o JsonEscape(Tail(text))

\* Value of a hexadecimal digit, -1 for any other character.
HexVal(c) ==
    IF \E i \in 1..10 : DigitChars[i] = c
    THEN (CHOOSE i \in 1..10 : DigitChars[i] = c) - 1
    ELSE IF \E i \in 1..6 : UpperChars[i] = c
    THEN 9 + (CHOOSE i \in 1..6 : UpperChars[i] = c)
    ELSE IF \E i \in 1..6 : LowerChars[i] = c
    THEN 9 + (CHOOSE i \in 1..6 : LowerChars[i] = c)
    ELSE -1

RECURSIVE JsonUnescape(_)
\* serde_json reading the text between the quotes of a string: [ok, text].
\* A bare quote ends the string before the document allows it; a backslash
\* starts an escape (\", \\, \/, a control character, or \u and four
\* hexadecimal digits); a surrogate code point is followed here by no second
\* escape and is an error.
JsonUnescape(raw) ==
    LET fail == [ok |-> FALSE, text |-> <<>>]
        then(c, n) ==
            LET rest == JsonUnescape(SubSeq(raw, n, Len(raw)))
            IN  IF rest.ok THEN [ok |-> TRUE, text |-> <<c>> \o rest.text] ELSE fail
    IN  IF raw = <<>> THEN [ok |-> TRUE, text |-> <<>>]
        ELSE IF raw[1] = "\"" THEN fail
        ELSE IF raw[1] # "\\" THEN then(raw[1], 2)
        ELSE IF Len(raw) < 2 THEN fail
        ELSE IF raw[2] \in {"\"", "\\", "/"} THEN then(raw[2], 3)
        ELSE IF raw[2] \in {"b", "f", "n", "r", "t"} THEN then("^", 3)
        ELSE IF raw[2] = "u" /\ Len(raw) >= 6
                  /\ \A i \in 3..6 : HexVal(raw[i]) >= 0
        THEN LET code == HexVal(raw[3]) * 4096 + HexVal(raw[4]) * 256
                           + HexVal(raw[5]) * 16 + HexVal(raw[6])
             IN  IF code >= 55296 /\ code <= 57343 THEN fail
                 ELSE then(CharOf(code), 7)
        ELSE fail

\* The bytes of a document, as the two chunks write_all may hand to the OS
\* one after the other.
Chunks(doc) == << [part |-> "head", blob |-> doc], [part |-> "tail", blob |-> doc] >>

\* serde_json::to_vec(blob)
to_vec(blob) == Chunks([blob EXCEPT !.nonce = JsonEscape(@)])

\* serde_json::from_slice: [ok, blob]; anything but a whole document fails.
from_slice(buf) ==
    IF Len(buf) = 2 /\ buf = Chunks(buf[1].blob) /\ JsonUnescape(buf[1].blob.nonce).ok
    THEN [ok |-> TRUE,
          blob |-> [buf[1].blob EXCEPT !.nonce = JsonUnescape(@).text]]
    ELSE [ok |-> FALSE, blob |-> NoBlob]

sanitize_key(key) == B64Encode(URL_SAFE_NO_PAD, AsBytes(key))

path_for(key) == Join(RootPath, sanitize_key(key))

\* read_blob: File::open, read_to_end, serde_json::from_slice.
\* [res, blob]: res is Ok, NotFound (carrying the path) or Storage.
read_blob(d, f, path) ==
    IF IsDir(d, path)
    THEN [res |-> storage_err("Is a directory"), blob |-> NoBlob]
    ELSE IF ~IsFile(f, path)
    THEN [res |-> NotFound(path), blob |-> NoBlob]
    ELSE IF ~from_slice(f[path]).ok
    THEN [res |-> storage_err("json"), blob |-> NoBlob]
    ELSE [res |-> Ok(<<>>), blob |-> from_slice(f[path]).blob]

\* get, lines 89-110: decode the nonce, Nonce::from_slice, decode the
\* ciphertext, decrypt.  GenericArray::from_slice panics on another length.
open_blob(material, blob) ==
    LET n == B64Decode(URL_SAFE_NO_PAD, blob.nonce)
        c == CtDecode(blob.ciphertext)
    IN  IF ~n.ok THEN Storage("nonce decode failed")
        ELSE IF Len(n.bytes) # NonceLen THEN Panic("Nonce::from_slice")
        ELSE IF ~c.ok THEN Storage("ciphertext decode failed")
        ELSE decrypt(material, n.bytes, c.bytes)

\* Mutant: the blob stores another nonce than the one the value was sealed under.
seal_blob_other_nonce(material, nonce, value) ==
    [nonce      |-> B64Encode(URL_SAFE_NO_PAD, [j \in 1..NonceLen |-> 0]),
     ciphertext |-> CtEncode(encrypt(material, nonce, value))]

\* Mutant: the blob stores the value itself, encoded but not encrypted.
seal_blob_plain(material, nonce, value) ==
    [nonce      |-> B64Encode(URL_SAFE_NO_PAD, nonce),
     ciphertext |-> CtEncode([seal |-> "clear", key |-> <<>>, nonce |-> <<>>,
                              pt |-> value])]

\* put, lines 60-71: a fresh nonce, encrypt, encode both fields.
seal_blob(material, nonce, value) ==
    [nonce      |-> B64Encode(URL_SAFE_NO_PAD, nonce),
     ciphertext |-> CtEncode(encrypt(material, nonce, value))]

----------------------------------------------------------------------------
(* InMemorySecureStore (secure_store.rs) *)

mask(input) == [i \in 1..Len(input) |-> Xor8(input[i], MASK_BYTE)]
unmask(input) == mask(input)

----------------------------------------------------------------------------
(* Inputs *)

Keys   == { <<>>, <<"k">>, <<"a", "/", "b">> }     \* "", "k", "a/b"
Values == { <<>>, <<118>> }                        \* b"", b"v"
Stores == {"file", "mem"}

\* The logical key SecureStoreTaskRepo keeps its document under.
TASKS_KEY == <<"t", "a", "s", "k", "s">>

----------------------------------------------------------------------------
(* Callers *)

NoNote == [expect   |-> [set |-> FALSE, val |-> <<>>],
           unwritten |-> FALSE,
           overlap  |-> FALSE,
           tampered |-> FALSE,
           crashed  |-> [set |-> FALSE, before |-> NoResult, value |-> <<>>],
           before   |-> NoResult,
           poisoned |-> FALSE]

Idle == [pc |-> "idle", op |-> "none", key |-> <<>>, value |-> <<>>,
         km |-> NoKey, blob |-> NoBlob, tmp |-> <<>>, after |-> "idle",
         note |-> NoNote]

NoRet == [op |-> "none", proc |-> 0, store |-> "file", key |-> <<>>, value |-> <<>>,
          res |-> NoResult, km |-> NoKey, blob |-> NoBlob, note |-> NoNote,
          twin |-> NoResult]

Busy(c, opname, k) == c.pc # "idle" /\ c.op = opname /\ c.key = k

\* A lock that takes the guard out of the PoisonError and goes on.
lock_recovers(mutex) == FALSE

\* self.inner.lock() is Err(PoisonError) when the mutex is poisoned.
lock_fails(mutex) == poisoned[mutex]

\* The first step of KeyProvider::get_or_create for the store's provider.
KeyPc == IF config.provider = "memory" THEN "mem_key" ELSE "kr_read"

\* What get(k) would return if it ran now, alone (no state is changed).
Peek(k) ==
    LET r  == read_blob(dirs, files, path_for(k))
        km == IF config.provider = "memory"
              THEN (IF lock_fails("provider") THEN NoKey
                    ELSE IF slot # NoKey THEN slot ELSE generate_key(rng.keys + 1))
              ELSE (IF keyring.present THEN decode_key(keyring.secret).material
                    ELSE generate_key(rng.keys + 1))
    IN  IF r.res.tag # "Ok" THEN r.res
        ELSE IF km = NoKey THEN Storage("key provider")
        ELSE open_blob(km, r.blob)

\* What get(k) of the store in use would return if it ran now, alone.
Lookup(k) ==
    IF config.store = "mem"
    THEN (IF lock_fails("store") THEN Storage("lock poisoned")
          ELSE IF k \in DOMAIN inner THEN Ok(unmask(inner[k])) ELSE NotFound(k))
    ELSE Peek(k)

----------------------------------------------------------------------------
(* History kept for the properties *)

NoLast  == [set |-> FALSE, val |-> <<>>]
NoCrash == [set |-> FALSE, before |-> NoResult, value |-> <<>>]

GhostInit ==
    [puts      |-> 0,
     last      |-> [k \in Keys \cup {TASKS_KEY} |-> NoLast],
     vals      |-> [k \in Keys \cup {TASKS_KEY} |-> {}],
     nonces    |-> {},
     reused    |-> FALSE,
     keywrites |-> 0,
     tampered  |-> {},
     crashed   |-> [k \in Keys \cup {TASKS_KEY} |-> NoCrash]]

\* An operation on k starts (v is the value of a put).
GhostBegin(g, opname, k, v) ==
    [g EXCEPT
        !.puts = IF opname = "put" THEN @ + 1 ELSE @,
        !.vals[k] = IF opname = "put" THEN @ \cup {v} ELSE @,
        !.last[k] = IF opname = "get" THEN @ ELSE NoLast,
        !.crashed[k] = IF opname = "get" THEN @ ELSE NoCrash]

\* An operation on k returns res; others tells whether another operation on
\* the same key is still running.
GhostEnd(g, opname, k, v, res, others) ==
    [g EXCEPT
        !.last[k] =
            IF opname = "put" /\ res.tag = "Ok" /\ ~others
            THEN [set |-> TRUE, val |-> v] ELSE @]

OthersOn(p, k) ==
    \E q \in Procs \ {p} : caller[q].pc # "idle" /\ caller[q].key = k

\* The note a get(k) starts with.
GetNote(p, k) ==
    [NoNote EXCEPT
        !.expect    = ghost.last[k],
        !.unwritten = ghost.vals[k] = {},
        !.overlap   = \E q \in Procs \ {p} : Busy(caller[q], "put", k),
        !.tampered  = path_for(k) \in ghost.tampered,
        !.crashed   = ghost.crashed[k]]

----------------------------------------------------------------------------
(* Steps shared by the actions *)

\* Caller p may start an operation of a store.  In a sequential run one
\* caller issues the calls, one after the other.
Begin(p, store) ==
    /\ caller[p].pc = "idle"
    /\ config.store = store
    /\ config.sequential => p = 1

\* A put may start: the run follows config.puts of them, MaxPuts at most.
BeginPut(p, store) == Begin(p, store) /\ ghost.puts < config.puts

\* Caller p goes on with locals c; g is the history after the step.
Continue(p, c, g) ==
    /\ caller' = [caller EXCEPT ![p] = c]
    /\ ret' = ret
    /\ ghost' = g

\* Caller p's operation, with locals c, returns res.
Return(p, c, g, res) ==
    /\ caller' = [caller EXCEPT ![p] = Idle]
    /\ ret' = [op |-> c.op, proc |-> p, store |-> "file", key |-> c.key,
               value |-> c.value, res |-> res, km |-> c.km, blob |-> c.blob,
               note |-> c.note, twin |-> NoResult]
    /\ ghost' = GhostEnd(g, c.op, c.key, c.value, res, OthersOn(p, c.key))

----------------------------------------------------------------------------
(* EncryptedFileStore::put *)

\* put begins: fs::create_dir_all(&self.root), then the key provider.
PutStart(p) ==
    \E k \in config.keys, v \in config.values :
        /\ BeginPut(p, "file")
        /\ dirs' = dirs \cup Ancestors(RootPath)
        /\ caller' = [q \in Procs |->
              IF q = p
              THEN [Idle EXCEPT !.pc = KeyPc, !.op = "put", !.key = k, !.value = v,
                                !.after = "put_encrypt", !.note.before = Peek(k)]
              ELSE IF Busy(caller[q], "get", k)
              THEN [caller[q] EXCEPT !.note.overlap = TRUE]
              ELSE caller[q]]
        /\ ghost' = GhostBegin(ghost, "put", k, v)
        /\ UNCHANGED <<files, keyring, slot, inner, config, poisoned, ret, rng, repo>>

\* put, lines 60-73, and write_blob up to NamedTempFile::new_in(parent):
\* draw the nonce, encrypt, build the blob, create the empty temp file.
PutTmp(p) ==
    LET c      == caller[p]
        nonce  == generate_nonce(rng.nonces + 1)
        blob   == seal_blob(c.km, nonce, c.value)
        parent == Parent(path_for(c.key))
        tmp    == TmpPath(files, parent)
    IN  /\ c.pc = "put_encrypt"
        /\ dirs' = dirs \cup Ancestors(parent)
        /\ files' = WriteFile(files, tmp, <<>>)
        /\ rng' = [rng EXCEPT !.nonces = @ + 1]
        /\ Continue(p, [c EXCEPT !.pc = "wb_write", !.blob = blob, !.tmp = tmp],
                    [ghost EXCEPT !.nonces = @ \cup {blob.nonce},
                                  !.reused = @ \/ blob.nonce \in ghost.nonces])
        /\ UNCHANGED <<keyring, slot, inner, config, poisoned, repo>>

\* A write_blob that writes the document over the file it replaces.
write_in_place(c) == path_for(c.key)

\* The file write_blob writes the document to.
write_target(c) == c.tmp

\* write_blob: tmp.write_all(&json), one chunk of the document at a time.
PutWrite(p) ==
    LET c    == caller[p]
        json == to_vec(c.blob)
        path == write_target(c)
        had  == IF IsFile(files, path) /\ path = c.tmp THEN files[path] ELSE <<>>
        now  == Append(had, json[Len(had) + 1])
    IN  /\ c.pc = "wb_write"
        /\ files' = WriteFile(files, path, now)
        /\ Continue(p, [c EXCEPT !.pc = IF Len(now) = Len(json)
                                        THEN "wb_persist" ELSE "wb_write"], ghost)
        /\ UNCHANGED <<dirs, keyring, slot, inner, config, poisoned, rng, repo>>

\* write_blob: tmp.flush() and tmp.persist(path), an atomic rename.  Renaming
\* onto a directory fails; the temp file is then removed when it is dropped.
PutPersist(p) ==
    LET c    == caller[p]
        path == path_for(c.key)
    IN  /\ c.pc = "wb_persist"
        /\ IF IsDir(dirs, path)
           THEN /\ files' = RemoveFile(files, c.tmp)
                /\ Return(p, c, ghost, storage_err("Is a directory"))
           ELSE /\ files' = RemoveFile(WriteFile(files, path, files[c.tmp]), c.tmp)
                /\ Return(p, c, [ghost EXCEPT !.tampered = @ \ {path}], Ok(<<>>))
        /\ UNCHANGED <<dirs, keyring, slot, inner, config, poisoned, rng, repo>>

----------------------------------------------------------------------------
(* EncryptedFileStore::get *)

\* get begins: read_blob(&path); on success the key provider is next.
GetStart(p) ==
    \E k \in config.keys :
        LET r == read_blob(dirs, files, path_for(k))
            c == [Idle EXCEPT !.pc = KeyPc, !.op = "get", !.key = k,
                              !.after = "get_decrypt", !.blob = r.blob,
                              !.note = GetNote(p, k)]
            g == GhostBegin(ghost, "get", k, <<>>)
        IN  /\ Begin(p, "file")
            /\ IF r.res.tag = "Ok" THEN Continue(p, c, g) ELSE Return(p, c, g, r.res)
            /\ UNCHANGED <<dirs, files, keyring, slot, inner, config, poisoned, rng, repo>>

\* get, lines 89-110.
GetDecrypt(p) ==
    LET c == caller[p]
    IN  /\ c.pc = "get_decrypt"
        /\ Return(p, c, ghost, open_blob(c.km, c.blob))
        /\ UNCHANGED <<dirs, files, keyring, slot, inner, config, poisoned, rng, repo>>

----------------------------------------------------------------------------
(* EncryptedFileStore::delete *)

\* fs::remove_file(path): Ok, NotFound (taken as Ok) or another error.
Delete(p) ==
    \E k \in config.keys :
        LET path == path_for(k)
            c    == [Idle EXCEPT !.op = "delete", !.key = k]
            g    == GhostBegin(ghost, "delete", k, <<>>)
        IN  /\ Begin(p, "file")
            /\ IF IsDir(dirs, path)
               THEN /\ files' = files
                    /\ Return(p, c, g, storage_err("Is a directory"))
               ELSE /\ files' = RemoveFile(files, path)
                    /\ Return(p, c, [g EXCEPT !.tampered = @ \ {path}], Ok(<<>>))
            /\ UNCHANGED <<dirs, keyring, slot, inner, config, poisoned, rng, repo>>

----------------------------------------------------------------------------
(* KeyProvider::get_or_create *)

\* The caller has its key material: put or get goes on.
GotKey(p, material, g) ==
    Continue(p, [caller[p] EXCEPT !.pc = caller[p].after, !.km = material], g)

\* A get_or_create that does not look at the slot: every call generates a key
\* and stores it.
MemAlwaysCreate(p) ==
    /\ caller[p].pc = "mem_key"
    /\ slot' = generate_key(rng.keys + 1)
    /\ rng' = [rng EXCEPT !.keys = @ + 1]
    /\ GotKey(p, generate_key(rng.keys + 1), ghost)
    /\ UNCHANGED <<dirs, files, keyring, inner, config, poisoned, repo>>

\* InMemoryKeyProvider::get_or_create, all of it under the mutex.
MemGetOrCreate(p) ==
    /\ caller[p].pc = "mem_key"
    /\ \E c \in {[caller[p] EXCEPT !.note.poisoned = poisoned.provider]} :
         IF lock_fails("provider")
         THEN /\ Return(p, c, ghost,
                        Storage("key provider: generation error: lock poisoned"))
              /\ UNCHANGED <<slot, rng>>
         ELSE IF slot # NoKey
         THEN /\ Continue(p, [c EXCEPT !.pc = c.after, !.km = slot], ghost)
              /\ UNCHANGED <<slot, rng>>
         ELSE /\ slot' = generate_key(rng.keys + 1)
              /\ rng' = [rng EXCEPT !.keys = @ + 1]
              /\ Continue(p, [c EXCEPT !.pc = c.after,
                                       !.km = generate_key(rng.keys + 1)], ghost)
    /\ UNCHANGED <<dirs, files, keyring, inner, config, poisoned, repo>>

\* Mutant: the stored secret is not reused, every call generates a key.
AfterGetPasswordAlwaysNew(p, found, secret) ==
    /\ rng' = [rng EXCEPT !.keys = @ + 1]
    /\ Continue(p, [caller[p] EXCEPT !.pc = "kr_set",
                                     !.km = generate_key(rng.keys + 1)], ghost)

\* What KeyringProvider::get_or_create does with the outcome of
\* entry.get_password(): found is TRUE when it returned Ok(secret).
AfterGetPassword(p, found, secret) ==
    LET c == caller[p]
    IN  IF found
        THEN /\ IF decode_key(secret).ok
                THEN GotKey(p, decode_key(secret).material, ghost)
                ELSE Return(p, c, ghost, Storage("key provider: decode error"))
             /\ rng' = rng
        ELSE /\ rng' = [rng EXCEPT !.keys = @ + 1]
             /\ Continue(p, [c EXCEPT !.pc = "kr_set",
                                      !.km = generate_key(rng.keys + 1)], ghost)

\* KeyringProvider::get_or_create: entry.get_password().
KrGetPassword(p) ==
    /\ caller[p].pc = "kr_read"
    /\ AfterGetPassword(p, keyring.present, keyring.secret)
    /\ UNCHANGED <<dirs, files, keyring, slot, inner, config, poisoned, repo>>

\* KeyringProvider::get_or_create: entry.set_password(&encode_key(&material)).
KrSetPassword(p) ==
    /\ caller[p].pc = "kr_set"
    /\ keyring' = Entry(encode_key(caller[p].km))
    /\ GotKey(p, caller[p].km, [ghost EXCEPT !.keywrites = @ + 1])
    /\ UNCHANGED <<dirs, files, slot, inner, config, poisoned, rng, repo>>

----------------------------------------------------------------------------
(* InMemorySecureStore: each operation runs under the mutex, in one step *)

MemReturn(p, opname, k, v, res) ==
    /\ caller' = caller
    /\ ret' = [NoRet EXCEPT !.op = opname, !.proc = p, !.store = "mem", !.key = k,
                             !.value = v, !.res = res,
                             !.note.expect = ghost.last[k],
                             !.note.unwritten = ghost.vals[k] = {},
                             !.note.poisoned = poisoned.store]
    /\ ghost' = GhostEnd(GhostBegin(ghost, opname, k, v), opname, k, v, res, FALSE)

MemPut(p) ==
    \E k \in config.keys, v \in config.values :
        /\ BeginPut(p, "mem")
        /\ IF lock_fails("store")
           THEN /\ inner' = inner
                /\ MemReturn(p, "put", k, v, Storage("lock poisoned"))
           ELSE /\ inner' = WriteFile(inner, k, mask(v))
                /\ MemReturn(p, "put", k, v, Ok(<<>>))
        /\ UNCHANGED <<dirs, files, keyring, slot, config, poisoned, rng, repo>>

MemGet(p) ==
    \E k \in config.keys :
        /\ Begin(p, "mem")
        /\ MemReturn(p, "get", k, <<>>,
                     IF lock_fails("store") THEN Storage("lock poisoned")
                     ELSE IF k \in DOMAIN inner THEN Ok(unmask(inner[k]))
                     ELSE NotFound(k))
        /\ UNCHANGED <<dirs, files, keyring, slot, inner, config, poisoned, rng, repo>>

MemDelete(p) ==
    \E k \in config.keys :
        /\ Begin(p, "mem")
        /\ IF lock_fails("store")
           THEN /\ inner' = inner
                /\ MemReturn(p, "delete", k, <<>>, Storage("lock poisoned"))
           ELSE /\ inner' = RemoveFile(inner, k)
                /\ MemReturn(p, "delete", k, <<>>, Ok(<<>>))
        /\ UNCHANGED <<dirs, files, keyring, slot, config, poisoned, rng, repo>>

----------------------------------------------------------------------------
(* Task and its JSON document (frodo-core/src/tasks.rs, frodo-task/src/lib.rs) *)

MaxTasks == 2    \* records created in one behaviour

TaskStatus == <<"Todo", "InProgress", "Done">>

\* Option<String>
None == [some |-> FALSE, text |-> <<>>]
Some(text) == [some |-> TRUE, text |-> text]

\* Task::new(title, description, tags), with the UUID and the time it reads.
Task_new(title, description, tags, uuid, now) ==
    [id |-> uuid, title |-> title, description |-> description, tags |-> tags,
     status |-> "Todo", created_at |-> now, updated_at |-> now]

NoTask == Task_new(<<>>, None, <<>>, 0, 0)

\* The document of one record: a fixed-width stand-in for its JSON object.
\* The braces, the field order and the separators are kept; the text of each
\* field is one byte (0 for null and for the empty list).
TaskBytes(t) ==
    << 123, t.id, Utf8(t.title[1]),
       IF t.description.some THEN Utf8(t.description.text[1]) ELSE 0,
       IF t.tags = <<>> THEN 0 ELSE Utf8(t.tags[1][1]),
       (CHOOSE i \in 1..3 : TaskStatus[i] = t.status) - 1,
       t.created_at, t.updated_at, 125 >>

\* bytes of one record's document
RecLen == Len(TaskBytes(Task_new(<<"a">>, None, <<>>, 0, 0)))

RECURSIVE JoinRecords(_)
JoinRecords(tasks) ==
    IF tasks = <<>> THEN <<>>
    ELSE IF Len(tasks) = 1 THEN TaskBytes(tasks[1])
    ELSE TaskBytes(tasks[1]) \o <<44>> \o JoinRecords(Tail(tasks))

\* serde_json::to_vec(tasks): [ record , record ... ]
tasks_to_vec(tasks) == <<91>> \o JoinRecords(tasks) \o <<93>>

\* The text of a one-byte field.
TextOf(byte) ==
    IF byte \in 97..122 THEN <<LowerChars[byte - 96]>> ELSE <<CharOf(byte)>>

\* One record read back: [ok, task].
ParseTask(b) ==
    IF /\ Len(b) = RecLen /\ b[1] = 123 /\ b[RecLen] = 125
       /\ b[6] \in 0..2
    THEN [ok |-> TRUE,
          task |-> [id |-> b[2], title |-> TextOf(b[3]),
                    description |-> IF b[4] = 0 THEN None ELSE Some(TextOf(b[4])),
                    tags |-> IF b[5] = 0 THEN <<>> ELSE <<TextOf(b[5])>>,
                    status |-> TaskStatus[b[6] + 1],
                    created_at |-> b[7], updated_at |-> b[8]]]
    ELSE [ok |-> FALSE, task |-> NoTask]

RECURSIVE ParseRecords(_)
\* The records between the brackets: [ok, tasks].
ParseRecords(b) ==
    LET head == ParseTask(SubSeq(b, 1, RecLen))
        rest == ParseRecords(SubSeq(b, RecLen + 2, Len(b)))
    IN  IF Len(b) < RecLen \/ ~head.ok THEN [ok |-> FALSE, tasks |-> <<>>]
        ELSE IF Len(b) = RecLen THEN [ok |-> TRUE, tasks |-> <<head.task>>]
        ELSE IF b[RecLen + 1] # 44 \/ ~rest.ok THEN [ok |-> FALSE, tasks |-> <<>>]
        ELSE [ok |-> TRUE, tasks |-> <<head.task>> \o rest.tasks]

\* serde_json::from_slice::<Vec<Task>>(&bytes): [ok, tasks].
tasks_from_slice(bytes) ==
    IF Len(bytes) < 2 \/ bytes[1] # 91 \/ bytes[Len(bytes)] # 93
    THEN [ok |-> FALSE, tasks |-> <<>>]
    ELSE IF Len(bytes) = 2 THEN [ok |-> TRUE, tasks |-> <<>>]
    ELSE ParseRecords(SubSeq(bytes, 2, Len(bytes) - 1))

----------------------------------------------------------------------------
(* The store as SecureStoreTaskRepo uses it: one call after the other, each *)
(* call run to its end.  The operators give the outcome of a call made in   *)
(* the current state: its result and the state it leaves.                   *)

\* KeyProvider::get_or_create of the store's provider: [ok, km, slot, keyring, keys].
ProvideKey ==
    LET fresh == generate_key(rng.keys + 1)
        same  == [ok |-> TRUE, km |-> NoKey, slot |-> slot, keyring |-> keyring,
                  keys |-> rng.keys, err |-> "key provider: decode error"]
    IN  IF config.provider = "memory"
        THEN (IF lock_fails("provider")
              THEN [same EXCEPT !.ok = FALSE,
                       !.err = "key provider: generation error: lock poisoned"]
              ELSE IF slot # NoKey
              THEN [same EXCEPT !.km = slot]
              ELSE [same EXCEPT !.km = fresh, !.slot = fresh, !.keys = @ + 1])
        ELSE (IF keyring.present
              THEN (IF decode_key(keyring.secret).ok
                    THEN [same EXCEPT !.km = decode_key(keyring.secret).material]
                    ELSE [same EXCEPT !.ok = FALSE])
              ELSE [same EXCEPT !.km = fresh, !.keyring = Entry(encode_key(fresh)),
                                !.keys = @ + 1])

\* self.store.get(key): [res, slot, keyring, keys].
StoreGet(key) ==
    LET r    == read_blob(dirs, files, path_for(key))
        pk   == ProvideKey
        same == [res |-> NoResult, slot |-> slot, keyring |-> keyring,
                 keys |-> rng.keys]
    IN  IF config.store = "mem"
        THEN [same EXCEPT !.res = IF lock_fails("store")
                                  THEN Storage("lock poisoned")
                                  ELSE IF key \in DOMAIN inner
                                  THEN Ok(unmask(inner[key])) ELSE NotFound(key)]
        ELSE IF r.res.tag # "Ok" THEN [same EXCEPT !.res = r.res]
        ELSE IF ~pk.ok
        THEN [same EXCEPT !.res = Storage(pk.err)]
        ELSE [res |-> open_blob(pk.km, r.blob), slot |-> pk.slot,
              keyring |-> pk.keyring, keys |-> pk.keys]

\* self.store.put(key, value):
\* [res, dirs, files, inner, slot, keyring, keys, nonces].
StorePut(key, value) ==
    LET pk     == ProvideKey
        blob   == seal_blob(pk.km, generate_nonce(rng.nonces + 1), value)
        path   == path_for(key)
        root   == dirs \cup Ancestors(RootPath)
        parent == root \cup Ancestors(Parent(path))
        same   == [res |-> Ok(<<>>), dirs |-> dirs, files |-> files,
                   inner |-> inner, slot |-> slot, keyring |-> keyring,
                   keys |-> rng.keys, nonces |-> rng.nonces]
        keyed  == [same EXCEPT !.slot = pk.slot, !.keyring = pk.keyring,
                               !.keys = pk.keys, !.nonces = @ + 1]
    IN  IF config.store = "mem"
        THEN (IF lock_fails("store")
              THEN [same EXCEPT !.res = Storage("lock poisoned")]
              ELSE [same EXCEPT !.inner = WriteFile(inner, key, mask(value))])
        ELSE IF ~pk.ok
        THEN [same EXCEPT !.res = Storage(pk.err), !.dirs = root]
        ELSE IF IsDir(parent, path)
        THEN [keyed EXCEPT !.res = storage_err("Is a directory"), !.dirs = parent]
        ELSE [keyed EXCEPT !.dirs = parent,
                           !.files = WriteFile(files, path, to_vec(blob))]

----------------------------------------------------------------------------
(* SecureStoreTaskRepo (frodo-task/src/lib.rs) *)

\* anyhow results of the repository: Ok(tasks), Ok(task) or Err(reason).
OkTasks(tasks) == [tag |-> "Ok", tasks |-> tasks, task |-> NoTask, reason |-> ""]
OkTask(task)   == [tag |-> "Ok", tasks |-> <<>>, task |-> task, reason |-> ""]
Err(reason)    == [tag |-> "Err", tasks |-> <<>>, task |-> NoTask, reason |-> reason]

\* Mutant: a store without the document is an error.
LoadStrict(res) ==
    LET parsed == tasks_from_slice(res.val)
    IN  IF res.tag = "Ok"
        THEN (IF parsed.ok THEN OkTasks(parsed.tasks) ELSE Err("json"))
        ELSE Err(res.tag)

\* Mutant: a document that cannot be read is an empty collection.
LoadLenient(res) ==
    LET parsed == tasks_from_slice(res.val)
    IN  IF res.tag = "Ok" /\ parsed.ok THEN OkTasks(parsed.tasks)
        ELSE IF res.tag = "Panic" THEN [Err(res.reason) EXCEPT !.tag = "Panic"]
        ELSE OkTasks(<<>>)

\* load, on the result of self.store.get(TASKS_KEY).  A get that panics
\* unwinds through the call.
Load(res) ==
    LET parsed == tasks_from_slice(res.val)
    IN  IF res.tag = "Ok"
        THEN (IF parsed.ok THEN OkTasks(parsed.tasks) ELSE Err("json"))
        ELSE IF res.tag = "NotFound" THEN OkTasks(<<>>)
        ELSE IF res.tag = "Panic" THEN [Err(res.reason) EXCEPT !.tag = "Panic"]
        ELSE Err(res.tag)

\* What list() would return if it ran now.
ListNow == Load(StoreGet(TASKS_KEY).res)

\* Mutant: the new record goes to the front.
push_front(tasks, task) == <<task>> \o tasks

\* tasks.push(task.clone())
push(tasks, task) == Append(tasks, task)

\* Mutant: the first record is taken, whatever its id.
FindTaskFirst(tasks, id) == IF tasks = <<>> THEN 0 ELSE 1

\* set_status, lines 68-75: the first record with the id (0: none).
FindTask(tasks, id) ==
    IF \E i \in 1..Len(tasks) : tasks[i].id = id
    THEN CHOOSE i \in 1..Len(tasks) :
            /\ tasks[i].id = id
            /\ \A j \in 1..(i - 1) : tasks[j].id # id
    ELSE 0

\* Mutant: every record gets the status.
UpdateStatusAll(tasks, i, status, now) ==
    [j \in 1..Len(tasks) |->
        IF j = i THEN [tasks[j] EXCEPT !.status = status, !.updated_at = now]
        ELSE [tasks[j] EXCEPT !.status = status]]

\* set_status, lines 70-71, on record i.
UpdateStatus(tasks, i, status, now) ==
    [tasks EXCEPT ![i] = [@ EXCEPT !.status = status, !.updated_at = now]]

\* The arguments of the calls.
Times == {0, 1}          \* what Utc::now() reads: an earlier and a later instant
CreateArgs ==
    { [title |-> <<"a">>, description |-> None, tags |-> <<>>],
      [title |-> <<"b">>, description |-> Some(<<"d">>), tags |-> << <<"g">> >>] }

\* The call that returned last: its arguments, the time it read and its
\* result; what load and get("tasks") gave it (before, doc); whether the key
\* had ever been written; how many puts it made; whether it changed a file,
\* a directory or an entry of the store (wrote) or the stored key (keyed).
NoCall == [op |-> "none", proc |-> 0,
           args |-> [title |-> <<>>, description |-> None, tags |-> <<>>],
           id |-> 0, status |-> "Todo", now |-> 0]

\* A call of a concurrent caller between its load and its save: what it was
\* asked and what load gave it; once it is in save, the list it saves and
\* the result it will return (h), and the store as it was when save began.
NoPending == [pc |-> "idle", call |-> NoCall, got |-> NoResult,
              loaded |-> OkTasks(<<>>), h |-> [res |-> OkTasks(<<>>), tasks |-> <<>>, uuids |-> 0, save |-> FALSE],
              was |-> <<>>]

RepoInit ==
    [ret |-> [call |-> NoCall, res |-> Err(""), before |-> OkTasks(<<>>),
              doc |-> NoResult, puts |-> 0, wrote |-> FALSE, keyed |-> FALSE,
              unwritten |-> TRUE],
     uuids |-> 0, puts |-> 0, written |-> FALSE,
     calls |-> [p \in Procs |-> NoPending], oks |-> 0]

\* A handler up to its save: [res, save, tasks, uuids], the result it returns
\* when save succeeds, whether it saves and what, and the UUIDs it drew.
NoSave(res) == [res |-> res, save |-> FALSE, tasks |-> <<>>, uuids |-> 0]

\* list()
list(loaded) == NoSave(loaded)

\* Mutant: the record is added to what the store holds when the call saves.
create_on_stored(loaded, args, uuid, now) ==
    LET task == Task_new(args.title, args.description, args.tags, uuid, now)
    IN  IF loaded.tag # "Ok" THEN NoSave(loaded)
        ELSE [res |-> OkTask(task), save |-> TRUE,
              tasks |-> push(ListNow.tasks, task), uuids |-> 1]

\* create(title, description, tags)
create(loaded, args, uuid, now) ==
    LET task == Task_new(args.title, args.description, args.tags, uuid, now)
    IN  IF loaded.tag # "Ok" THEN NoSave(loaded)
        ELSE [res |-> OkTask(task), save |-> TRUE,
              tasks |-> push(loaded.tasks, task), uuids |-> 1]

\* set_status(id, status)
set_status(loaded, id, status, now) ==
    LET i       == FindTask(loaded.tasks, id)
        changed == UpdateStatus(loaded.tasks, i, status, now)
    IN  IF loaded.tag # "Ok" THEN NoSave(loaded)
        ELSE IF i = 0 THEN NoSave(Err("task not found"))
        ELSE [res |-> OkTask(changed[i]), save |-> TRUE, tasks |-> changed,
              uuids |-> 0]

\* (In the actions below, \E over a one-element set names a value that is
\* computed once.)

\* The rest of a call whose load gave loaded and whose handler came to h:
\* save(&tasks) (serde_json::to_vec, self.store.put(TASKS_KEY, &bytes)) when
\* the handler saves, and the return.  Without a save the store is as the
\* call's get left it.
RepoStep(call, got, loaded, h) ==
    /\ \A p \in Procs : caller[p].pc = "idle" /\ repo.calls[p].pc # "saving"
    /\ h.save => repo.puts < config.puts
    /\ \E out \in {IF h.save THEN StorePut(TASKS_KEY, tasks_to_vec(h.tasks))
                   ELSE [res |-> NoResult, dirs |-> dirs, files |-> files,
                         inner |-> inner, slot |-> got.slot,
                         keyring |-> got.keyring, keys |-> got.keys,
                         nonces |-> rng.nonces]} :
        /\ dirs' = out.dirs
        /\ files' = out.files
        /\ inner' = out.inner
        /\ slot' = out.slot
        /\ keyring' = out.keyring
        /\ rng' = [keys |-> out.keys, nonces |-> out.nonces]
        /\ repo' = [ret |-> [call |-> call,
                             res |-> IF h.save /\ out.res.tag # "Ok"
                                     THEN Err(out.res.reason) ELSE h.res,
                             before |-> loaded,
                             doc |-> got.res,
                             puts |-> IF h.save THEN 1 ELSE 0,
                             wrote |-> \/ out.dirs # dirs
                                       \/ out.files # files
                                       \/ out.inner # inner,
                             keyed |-> out.slot # slot \/ out.keyring # keyring,
                             unwritten |-> ~repo.written],
                    uuids |-> repo.uuids + h.uuids,
                    puts |-> repo.puts + (IF h.save THEN 1 ELSE 0),
                    written |-> repo.written \/ h.save,
                    calls |-> [p \in Procs |->
                                  IF p = call.proc THEN NoPending
                                  ELSE repo.calls[p]],
                    oks |-> IF call.op = "create" /\ h.save /\ out.res.tag = "Ok"
                            THEN repo.oks + 1 ELSE repo.oks]
        /\ UNCHANGED <<config, poisoned, caller, ret, ghost>>

TaskList ==
    \E got \in {StoreGet(TASKS_KEY)} : \E loaded \in {Load(got.res)} :
        \E h \in {list(loaded)} :
        RepoStep([NoCall EXCEPT !.op = "list"], got, loaded, h)

TaskCreate ==
    \E got \in {StoreGet(TASKS_KEY)} : \E loaded \in {Load(got.res)} :
        \E args \in CreateArgs, now \in Times :
          \E h \in {create(loaded, args, repo.uuids + 1, now)} :
            /\ repo.uuids < MaxTasks
            /\ RepoStep([NoCall EXCEPT !.op = "create", !.args = args, !.now = now],
                        got, loaded, h)

\* create of a concurrent caller, lines 56-57: self.load().await?  Another
\* caller may run before the rest of the call.
CreateLoad(p) ==
    \E got \in {StoreGet(TASKS_KEY)} : \E loaded \in {Load(got.res)} :
        \E args \in CreateArgs :
            /\ repo.calls[p].pc = "idle"
            /\ repo.uuids + Cardinality({q \in Procs : repo.calls[q].pc = "loaded"})
                   < MaxTasks
            /\ IF loaded.tag # "Ok"
               THEN RepoStep([NoCall EXCEPT !.op = "create", !.proc = p,
                                            !.args = args],
                             got, loaded, NoSave(loaded))
               ELSE /\ slot' = got.slot
                    /\ keyring' = got.keyring
                    /\ rng' = [rng EXCEPT !.keys = got.keys]
                    /\ repo' = [repo EXCEPT !.calls[p] =
                                   [NoPending EXCEPT
                                      !.pc = "loaded",
                                      !.call = [NoCall EXCEPT !.op = "create",
                                                              !.proc = p,
                                                              !.args = args],
                                      !.got = got.res, !.loaded = loaded]]
                    /\ UNCHANGED <<dirs, files, inner, config, poisoned, caller, ret, ghost>>

\* create of a concurrent caller, lines 57-61: Task::new, push, save, Ok(task).
CreateSave(p) ==
    \E now \in Times :
        \E h \in {create(repo.calls[p].loaded, repo.calls[p].call.args,
                         repo.uuids + 1, now)} :
            /\ repo.calls[p].pc = "loaded"
            /\ RepoStep([repo.calls[p].call EXCEPT !.now = now],
                        [res |-> repo.calls[p].got, slot |-> slot,
                         keyring |-> keyring, keys |-> rng.keys],
                        repo.calls[p].loaded, h)

\* create, lines 57-59, and save up to the first step of
\* EncryptedFileStore::put (fs::create_dir_all(&self.root)); the put then
\* goes on step by step as the caller's operation.
SaveStart(p) ==
    \E now \in Times :
        \E h \in {create(repo.calls[p].loaded, repo.calls[p].call.args,
                         repo.uuids + 1, now)} :
            /\ repo.calls[p].pc = "loaded"
            /\ Begin(p, "file")
            /\ repo.puts < config.puts
            /\ dirs' = dirs \cup Ancestors(RootPath)
            /\ caller' = [caller EXCEPT ![p] =
                             [Idle EXCEPT !.pc = KeyPc, !.op = "put",
                                          !.key = TASKS_KEY,
                                          !.value = tasks_to_vec(h.tasks),
                                          !.after = "put_encrypt",
                                          !.note.before = Peek(TASKS_KEY)]]
            /\ ghost' = GhostBegin(ghost, "put", TASKS_KEY, tasks_to_vec(h.tasks))
            /\ repo' = [repo EXCEPT
                           !.uuids = @ + h.uuids,
                           !.calls[p] = [@ EXCEPT
                               !.pc = "saving", !.call.now = now, !.h = h,
                               !.was = [dirs |-> dirs, files |-> files,
                                        keyring |-> keyring, slot |-> slot]]]
            /\ UNCHANGED <<files, keyring, slot, inner, config, poisoned, ret, rng>>

\* The put has returned: save maps its error, create returns Ok(task).
SaveReturn(p) ==
    LET c == repo.calls[p]
    IN  /\ c.pc = "saving"
        /\ caller[p].pc = "idle"
        /\ ret.proc = p /\ ret.op = "put"
        /\ repo' = [repo EXCEPT
                       !.ret = [call |-> c.call,
                                res |-> IF ret.res.tag = "Ok" THEN c.h.res
                                        ELSE [Err(ret.res.reason) EXCEPT
                                                !.tag = IF ret.res.tag = "Panic"
                                                        THEN "Panic" ELSE "Err"],
                                before |-> c.loaded,
                                doc |-> c.got,
                                puts |-> 1,
                                wrote |-> dirs # c.was.dirs \/ files # c.was.files,
                                keyed |-> keyring # c.was.keyring
                                          \/ slot # c.was.slot,
                                unwritten |-> ~repo.written],
                       !.puts = @ + 1,
                       !.written = TRUE,
                       !.calls[p] = NoPending,
                       !.oks = IF ret.res.tag = "Ok" THEN @ + 1 ELSE @]
        /\ UNCHANGED <<dirs, files, keyring, slot, inner, config, poisoned, caller, ret, rng,
                       ghost>>

\* The ids asked for: those create can draw, and 0, the nil UUID, which
\* Uuid::new_v4 never returns.
TaskSetStatus ==
    \E got \in {StoreGet(TASKS_KEY)} : \E loaded \in {Load(got.res)} :
        \E id \in 0..MaxTasks, status \in {TaskStatus[i] : i \in 1..3}, now \in Times :
          \E h \in {set_status(loaded, id, status, now)} :
            RepoStep([NoCall EXCEPT !.op = "set_status", !.id = id,
                                    !.status = status, !.now = now],
                     got, loaded, h)

----------------------------------------------------------------------------
(* The program: callers running one operation after the other *)

InitWith(cfg) ==
    /\ dirs = {<<"/">>, <<"/", "d">>}
    /\ files = <<>>
    /\ keyring = NoEntry
    /\ slot = NoKey
    /\ inner = <<>>
    /\ poisoned = [provider |-> FALSE, store |-> FALSE]
    /\ config = cfg
    /\ caller = [p \in Procs |-> Idle]
    /\ ret = NoRet
    /\ rng = [keys |-> 0, nonces |-> 0]
    /\ ghost = GhostInit
    /\ repo = RepoInit

Providers == {"keyring", "memory"}

\* One caller, either store, either key provider.
Init ==
    \E prov \in Providers, store \in Stores :
        InitWith([provider |-> prov, store |-> store, sequential |-> TRUE,
                  keys |-> Keys, values |-> Values, puts |-> MaxPuts])

FileStoreStep(p) ==
    \/ PutStart(p) \/ PutTmp(p) \/ PutWrite(p) \/ PutPersist(p)
    \/ GetStart(p) \/ GetDecrypt(p)
    \/ Delete(p)

KeyringStep(p) == KrGetPassword(p) \/ KrSetPassword(p)

MemStoreStep(p) == MemPut(p) \/ MemGet(p) \/ MemDelete(p)

Next ==
    \E p \in Procs :
        FileStoreStep(p) \/ KeyringStep(p) \/ MemGetOrCreate(p) \/ MemStoreStep(p)

Spec == Init /\ [][Next]_vars

\* The task repository over the stores the program builds it on
\* (frodo-cli/src/storage.rs): the encrypted file store with the keyring
\* provider, or the in-memory store.  Its calls are made one after the other.
InitTasks ==
    \E built \in { [provider |-> "keyring", store |-> "file"],
                   [provider |-> "memory", store |-> "mem"] } :
        InitWith([provider |-> built.provider, store |-> built.store,
                  sequential |-> TRUE, keys |-> {}, values |-> {},
                  puts |-> MaxPuts])

NextTasks == TaskList \/ TaskCreate \/ TaskSetStatus

SpecTasks == InitTasks /\ [][NextTasks]_vars

\* The repository with create calls of concurrent callers; every call of the
\* store runs to its end before the next one starts.
SpecTasksConc ==
    InitTasks /\ [][\E p \in Procs : CreateLoad(p) \/ CreateSave(p)]_vars

----------------------------------------------------------------------------
(* Callers running concurrently: threads of one process sharing the store
   (InMemoryKeyProvider) or processes sharing the root directory and the OS
   secret store (KeyringProvider) *)

InitConc ==
    \E prov \in Providers :
        InitWith([provider |-> prov, store |-> "file", sequential |-> FALSE,
                  keys |-> {<<>>, <<"k">>}, values |-> Values, puts |-> MaxPuts - 1])

SpecConc ==
    /\ InitConc
    /\ [][\E p \in Procs :
             FileStoreStep(p) \/ KeyringStep(p) \/ MemGetOrCreate(p)]_vars

----------------------------------------------------------------------------
(* The environment: what happens to the stored data outside the program *)

AllIdle == \A p \in Procs : caller[p].pc = "idle"

\* A file a put has written, whole and not changed since.
Untouched(k) ==
    /\ IsFile(files, path_for(k))
    /\ from_slice(files[path_for(k)]).ok
    /\ path_for(k) \notin ghost.tampered

TamperChars == {"A", "!", "\\", "\""}

\* One byte of the stored nonce or of the stored ciphertext is changed, in
\* the file as it is on disk.
Tamper ==
    \E k \in config.keys :
        LET path == path_for(k)
            doc  == files[path][1].blob
        IN  /\ AllIdle
            /\ Untouched(k)
            /\ \E changed \in
                   {[doc EXCEPT !.nonce[i] = c] :
                        i \in 1..Len(doc.nonce), c \in TamperChars}
                   \cup {[doc EXCEPT !.ciphertext.of.seal = "forged"],
                         [doc EXCEPT !.ciphertext.b64 = FALSE]} :
                   /\ changed # doc
                   /\ files' = WriteFile(files, path, Chunks(changed))
            /\ ghost' = [ghost EXCEPT !.tampered = @ \cup {path},
                                      !.last[k] = NoLast]
            /\ UNCHANGED <<dirs, keyring, slot, inner, config, poisoned, caller, ret, rng, repo>>

\* The key is lost: the process restarts (volatile provider) or the entry is
\* removed from the OS secret store.
ForgetKey ==
    /\ AllIdle
    /\ rng.keys < MaxKeys
    /\ keyring.present \/ slot # NoKey
    /\ keyring' = NoEntry
    /\ slot' = NoKey
    /\ ghost' = [ghost EXCEPT !.last = [k \in Keys \cup {TASKS_KEY} |-> NoLast]]
    /\ UNCHANGED <<dirs, files, inner, config, poisoned, caller, ret, rng, repo>>

InitFile ==
    \E prov \in Providers :
        InitWith([provider |-> prov, store |-> "file", sequential |-> TRUE,
                  keys |-> {<<>>, <<"a", "/", "b">>}, values |-> Values,
                  puts |-> MaxPuts - 1])

NextFile ==
    \E p \in Procs : FileStoreStep(p) \/ KeyringStep(p) \/ MemGetOrCreate(p)

SpecTamper == InitFile /\ [][NextFile \/ Tamper \/ ForgetKey]_vars

\* File contents no put has written.
GoodNonce == B64Encode(URL_SAFE_NO_PAD, generate_nonce(1))
ShortCt   == [NoCt EXCEPT !.seal = "short"]
Garbage ==
    { <<>>,                                                       \* empty file
      << to_vec(NoBlob)[1] >>,                                    \* truncated JSON
      to_vec([nonce |-> <<>>, ciphertext |-> CtEncode(ShortCt)]), \* nonce of 0 bytes
      to_vec([nonce |-> SubSeq(GoodNonce, 1, 11),                 \* nonce of 8 bytes
              ciphertext |-> CtEncode(ShortCt)]),
      to_vec([nonce |-> <<"!">>, ciphertext |-> CtEncode(ShortCt)]),  \* not base64
      to_vec([nonce |-> GoodNonce, ciphertext |-> CtEncode(ShortCt)]),
      to_vec([nonce |-> GoodNonce,
              ciphertext |-> [CtEncode(ShortCt) EXCEPT !.b64 = FALSE]]) }

\* Something else writes the file of a logical key.
Corrupt ==
    \E k \in config.keys, content \in Garbage :
        /\ AllIdle
        /\ sanitize_key(k) # <<>>
        /\ dirs' = dirs \cup Ancestors(RootPath)
        /\ files' = WriteFile(files, path_for(k), content)
        /\ ghost' = [ghost EXCEPT !.tampered = @ \cup {path_for(k)},
                                  !.last[k] = NoLast]
        /\ UNCHANGED <<keyring, slot, inner, config, poisoned, caller, ret, rng, repo>>

SpecCorrupt == InitFile /\ [][NextFile \/ Corrupt]_vars

\* The process of caller p dies in the middle of a put: its memory is lost,
\* no destructor runs, the files stay as they are.
Crash(p) ==
    LET c == caller[p]
    IN  /\ c.pc # "idle"
        /\ c.op = "put"
        /\ caller' = [caller EXCEPT ![p] = Idle]
        /\ ret' = [NoRet EXCEPT !.op = "crash", !.proc = p, !.key = c.key]
        /\ slot' = NoKey
        /\ inner' = <<>>
        /\ ghost' = [ghost EXCEPT
                        !.crashed[c.key] = [set |-> TRUE, before |-> c.note.before,
                                            value |-> c.value],
                        !.last[c.key] = NoLast]
        /\ UNCHANGED <<dirs, files, keyring, config, poisoned, rng, repo>>

\* The production store: KeyringProvider, one process at a time.
InitKeyring ==
    InitWith([provider |-> "keyring", store |-> "file", sequential |-> TRUE,
              keys |-> {<<>>, <<"k">>}, values |-> Values, puts |-> MaxPuts - 1])

NextKeyring == \E p \in Procs : FileStoreStep(p) \/ KeyringStep(p)

----------------------------------------------------------------------------
(* The two stores side by side *)

\* One call of put made on both stores: the EncryptedFileStore (dirs, files,
\* the provider) and the InMemorySecureStore (inner).  ret.res is what the
\* file store returned and ret.twin what the in-memory store returned.
TwinPut ==
    \E k \in config.keys, v \in config.values : \E out \in {StorePut(k, v)} :
        /\ rng.nonces < config.puts
        /\ dirs' = out.dirs
        /\ files' = out.files
        /\ slot' = out.slot
        /\ keyring' = out.keyring
        /\ rng' = [keys |-> out.keys, nonces |-> out.nonces]
        /\ inner' = IF lock_fails("store") THEN inner
                    ELSE WriteFile(inner, k, mask(v))
        /\ ret' = [NoRet EXCEPT !.op = "put", !.proc = 1, !.key = k, !.value = v,
                                !.res = out.res,
                                !.twin = IF lock_fails("store")
                                         THEN Storage("lock poisoned") ELSE Ok(<<>>)]
        /\ UNCHANGED <<config, poisoned, caller, ghost, repo>>

\* One call of get made on both stores.
TwinGet ==
    \E k \in config.keys : \E out \in {StoreGet(k)} :
        /\ slot' = out.slot
        /\ keyring' = out.keyring
        /\ rng' = [rng EXCEPT !.keys = out.keys]
        /\ ret' = [NoRet EXCEPT !.op = "get", !.proc = 1, !.key = k,
                                !.res = out.res,
                                !.twin = IF lock_fails("store")
                                         THEN Storage("lock poisoned")
                                         ELSE IF k \in DOMAIN inner
                                         THEN Ok(unmask(inner[k]))
                                         ELSE NotFound(k)]
        /\ UNCHANGED <<dirs, files, inner, config, poisoned, caller, ghost, repo>>

\* One call of delete made on both stores.
TwinDelete ==
    \E k \in config.keys :
        /\ files' = IF IsDir(dirs, path_for(k)) THEN files
                    ELSE RemoveFile(files, path_for(k))
        /\ inner' = IF lock_fails("store") THEN inner ELSE RemoveFile(inner, k)
        /\ ret' = [NoRet EXCEPT !.op = "delete", !.proc = 1, !.key = k,
                                !.res = IF IsDir(dirs, path_for(k))
                                        THEN storage_err("Is a directory")
                                        ELSE Ok(<<>>),
                                !.twin = IF lock_fails("store")
                                         THEN Storage("lock poisoned") ELSE Ok(<<>>)]
        /\ UNCHANGED <<dirs, keyring, slot, config, poisoned, caller, rng, ghost,
                       repo>>

\* Both stores from new, the file store on a root that does not exist yet
\* and with an InMemoryKeyProvider, given the same calls one after another.
SpecTwin ==
    /\ InitWith([provider |-> "memory", store |-> "file", sequential |-> TRUE,
                 keys |-> Keys, values |-> Values, puts |-> MaxPuts])
    /\ [][TwinPut \/ TwinGet \/ TwinDelete]_vars

\* A thread panics while it holds the mutex of the volatile key provider or
\* of the in-memory store: the mutex is poisoned from then on.
PoisonLock ==
    \E mutex \in {"provider", "store"} :
        /\ ~poisoned[mutex]
        /\ mutex = "provider" => config.provider = "memory"
        /\ mutex = "store" => config.store = "mem"
        /\ poisoned' = [poisoned EXCEPT ![mutex] = TRUE]
        /\ UNCHANGED <<dirs, files, keyring, slot, inner, config, caller, ret, rng,
                       ghost, repo>>

SpecPoison == Init /\ [][Next \/ PoisonLock]_vars

\* write_blob fails with an I/O error: NamedTempFile::new_in (line 130, after
\* the nonce is drawn and whether or not create_dir_all made the parent),
\* write_all (132), or flush and persist (133-134).  Each returns through
\* `?`, which drops the NamedTempFile, and dropping it removes the file.
PutFault(p) ==
    LET c == caller[p]
    IN  /\ c.op = "put"
        /\ \/ /\ c.pc = "put_encrypt"
              /\ dirs' \in {dirs, dirs \cup Ancestors(Parent(path_for(c.key)))}
              /\ files' = files
              /\ rng' = [rng EXCEPT !.nonces = @ + 1]
           \/ /\ c.pc \in {"wb_write", "wb_persist"}
              /\ files' = RemoveFile(files, c.tmp)
              /\ UNCHANGED <<dirs, rng>>
        /\ Return(p, c, ghost, storage_err("I/O error"))
        /\ UNCHANGED <<keyring, slot, inner, config, poisoned, repo>>

SpecPutFault == InitKeyring /\ [][NextKeyring \/ \E p \in Procs : PutFault(p)]_vars

\* The repository on the encrypted file store, with the put of create's save
\* followed step by step (InitKeyring: one caller, the keyring provider).
SpecTasksSteps ==
    /\ InitKeyring
    /\ [][\/ TaskList \/ TaskSetStatus
           \/ CreateLoad(1) \/ SaveStart(1) \/ SaveReturn(1)
           \/ PutTmp(1) \/ PutWrite(1) \/ PutPersist(1)
           \/ KeyringStep(1)]_vars

SpecCrash == InitKeyring /\ [][NextKeyring \/ \E p \in Procs : Crash(p)]_vars

\* entry.get_password() fails although a secret is stored: the backend is
\* unavailable for a moment.
KrReadFault(p) ==
    /\ caller[p].pc = "kr_read"
    /\ keyring.present
    /\ rng.keys < MaxKeys
    /\ AfterGetPassword(p, FALSE, <<>>)
    /\ UNCHANGED <<dirs, files, keyring, slot, inner, config, poisoned, repo>>

SpecKeyFault == InitKeyring /\ [][NextKeyring \/ \E p \in Procs : KrReadFault(p)]_vars

\* Secrets that are not the encoding of a key: 31 bytes, 33 bytes, nothing,
\* not base64, and 32 bytes in the wrong alphabet without padding.
BadSecrets ==
    { B64Encode(STANDARD, SubSeq(RandomKeyBytes(1), 1, KeyLen - 1)),
      B64Encode(STANDARD, RandomKeyBytes(1) \o <<0>>),
      <<>>,
      <<"!">>,
      B64Encode(URL_SAFE_NO_PAD, RandomKeyBytes(1)) }

\* Something else writes the entry of (service, account) in the OS secret store.
CorruptSecret ==
    \E bad \in BadSecrets :
        /\ AllIdle
        /\ keyring # Entry(bad)
        /\ keyring' = Entry(bad)
        /\ UNCHANGED <<dirs, files, slot, inner, config, poisoned, caller, ret, rng, ghost, repo>>

SpecBadSecret == InitKeyring /\ [][NextKeyring \/ CorruptSecret]_vars

\* Another user of the store puts bytes of its own under "tasks".
ForeignPut ==
    \E v \in Values : \E out \in {StorePut(TASKS_KEY, v)} :
        /\ rng.nonces < MaxPuts
        /\ dirs' = out.dirs
        /\ files' = out.files
        /\ inner' = out.inner
        /\ slot' = out.slot
        /\ keyring' = out.keyring
        /\ rng' = [keys |-> out.keys, nonces |-> out.nonces]
        /\ UNCHANGED <<config, poisoned, caller, ret, ghost, repo>>

\* The repository on a store whose "tasks" document or file something else
\* has written.
SpecTasksFault ==
    /\ \E built \in { [provider |-> "keyring", store |-> "file"],
                      [provider |-> "memory", store |-> "mem"] } :
           InitWith([provider |-> built.provider, store |-> built.store,
                     sequential |-> TRUE, keys |-> {TASKS_KEY}, values |-> {},
                     puts |-> MaxPuts - 2])
    /\ [][NextTasks \/ ForeignPut \/ Corrupt]_vars

----------------------------------------------------------------------------
(* The claims *)

\* C1 (round trip): when put(k, v) returned Ok and no other operation on k
\* came after it, the next get(k) returns exactly v, in both stores.
RoundTrip ==
    ret.op = "get" /\ ret.note.expect.set => ret.res = Ok(ret.note.expect.val)

\* C1 witness: a get of "a/b" from the file store returns the empty value,
\* which a put wrote over the other value.
RoundTripSeen ==
    /\ \A p \in Procs : caller[p].pc = "idle"
    /\ ret.op = "get" /\ ret.store = "file" /\ ret.key = <<"a", "/", "b">>
    /\ ret.note.expect.set
    /\ ghost.vals[ret.key] = Values
    /\ ret.res = Ok(<<>>)

\* The key material get obtained is not the one the blob it read was sealed under.
WrongKey == ret.km # NoKey /\ ret.blob.ciphertext.of.key # ret.km.bytes

\* C2 (tamper and wrong-key detection): a get that reads a file changed after
\* the put that wrote it, or that obtains another key than the put used,
\* returns a Storage error: neither Ok nor NotFound.
TamperDetected ==
    ret.op = "get" /\ ret.store = "file" /\ (ret.note.tampered \/ WrongKey)
        => ret.res.tag = "Storage"

\* C3 (get never crashes): whatever the file holds, get returns a
\* SecureStoreError; it never panics.
GetNeverPanics == ret.res.tag # "Panic"

\* C4 (atomic visibility of put): a get(k) that ran while a put(k, _) was in
\* progress returns NotFound or the whole value of one put(k, _).
AtomicVisibility ==
    ret.op = "get" /\ ret.note.overlap
        => \/ ret.res.tag = "NotFound"
           \/ ret.res.tag = "Ok" /\ ret.res.val \in ghost.vals[ret.key]

\* C5 (crash safety of put): after a crash in put(k, v_new), get(k) returns
\* what it returned before the put, or v_new.
CrashSafe ==
    ret.op = "get" /\ ret.note.crashed.set
        => ret.res \in {ret.note.crashed.before, Ok(ret.note.crashed.value)}

\* C6 (single-flight key creation): concurrent first calls of
\* KeyringProvider::get_or_create write at most one key.
SingleFlight == ghost.keywrites <= 1

\* C7 (a persisted key is never replaced): once the OS secret store holds a
\* secret, no step writes another one over it.
KeyNeverReplaced == [][keyring.present => keyring' = keyring]_vars

\* C8 (nonce uniqueness): no two blobs built by put carry the same nonce.
NonceUnique == ~ghost.reused

\* C8 witness: two puts of the same value under the same key, no other put.
NonceUniqueSeen ==
    /\ Cardinality(ghost.nonces) >= 2
    /\ \E k \in Keys :
          /\ Cardinality(ghost.vals[k]) = 1
          /\ \A other \in Keys \ {k} : ghost.vals[other] = {}

\* The byte strings a file holds unencrypted.
ClearText(content) ==
    {content[i].blob.ciphertext.of.pt :
        i \in {j \in 1..Len(content) : content[j].blob.ciphertext.of.seal = "clear"}}

\* C9 (no plaintext at rest): no file, final or temporary, holds a value in
\* the clear at any moment; what put writes is the nonce and the ciphertext.
NoPlaintextAtRest ==
    \A path \in DOMAIN files :
        /\ ClearText(files[path]) = {}
        /\ \A i \in 1..Len(files[path]) :
              files[path][i].blob.ciphertext.of.seal = "intact"

\* C9 witness: a put of b"v" has written part of its temp file.
NoPlaintextAtRestSeen ==
    \E p \in Procs :
        /\ caller[p].pc = "wb_write"
        /\ caller[p].value = <<118>>
        /\ Len(files[caller[p].tmp]) = 1

\* C10 (not found): get of a logical key no put was ever called with fails
\* with NotFound, in both stores.
NotFoundIfNeverWritten ==
    ret.op = "get" /\ ret.note.unwritten => ret.res.tag = "NotFound"

\* C11 (delete is idempotent): in both stores every delete(k) returns Ok,
\* whether or not k has a value, and get(k) right after it is NotFound (so a
\* second delete finds nothing to change).
DeleteIdempotent ==
    [][(\E p \in Procs : Delete(p) \/ MemDelete(p))
          => /\ ret'.res.tag = "Ok"
             /\ \A k \in Keys : ret'.key = k => Lookup(k)'.tag = "NotFound"]_vars

\* C12 (key idempotence): with either provider, calls made one after the
\* other all return the same key bytes and id, those of the one key that was
\* generated; no second key is ever generated.
KeyIdempotent ==
    /\ rng.keys <= 1
    /\ \A p \in Procs : caller[p].km # NoKey => caller[p].km = generate_key(1)
    /\ ret.km # NoKey => ret.km = generate_key(1)

\* C12 witness: with KeyringProvider a get has returned a value, opened with
\* the key a former call generated and stored.
KeyIdempotentSeen ==
    /\ config.provider = "keyring" /\ config.store = "file"
    /\ ghost.keywrites = 1
    /\ ret.op = "get" /\ ret.res.tag = "Ok"
    /\ ret.km = generate_key(1)

\* The secret is the STANDARD base64 text of exactly 32 bytes.
WellFormedSecret(secret) ==
    /\ B64Decode(STANDARD, secret).ok
    /\ Len(B64Decode(STANDARD, secret).bytes) = KeyLen

\* C13 (corrupt stored secret): when the stored secret does not decode to
\* exactly 32 bytes, the get_or_create that reads it fails with the decode
\* error, draws no key and leaves the stored secret as it is.
CorruptSecretRejected ==
    [][\A p \in Procs :
          /\ caller[p].pc = "kr_read" /\ caller'[p].pc # "kr_read"
          /\ keyring.present /\ ~WellFormedSecret(keyring.secret)
          => /\ keyring' = keyring
             /\ rng' = rng
             /\ caller'[p] = Idle
             /\ ret'.proc = p
             /\ ret'.res = Storage("key provider: decode error")]_vars

\* C13 witness: a call failed on a stored secret that is valid base64 of
\* another length than 32 bytes.
CorruptSecretRejectedSeen ==
    /\ ret.res = Storage("key provider: decode error")
    /\ keyring.present
    /\ B64Decode(STANDARD, keyring.secret).ok
    /\ Len(B64Decode(STANDARD, keyring.secret).bytes) = KeyLen - 1

\* Logical keys the path mapping is computed for: those the callers use,
\* "..", and the absolute path "/a".
PathKeys == Keys \cup { <<".", ".">>, <<"/", "a">> }

\* C14 (logical key to path mapping): path_for(k) is a direct child file of
\* the root for every logical key, distinct keys have distinct paths, and
\* every file that exists, temporary files included, lies in the root.
PathMapping ==
    /\ \A k \in PathKeys :
          /\ Parent(path_for(k)) = RootPath
          /\ ~HasTrailingSlash(path_for(k))
    /\ \A k1, k2 \in PathKeys : k1 # k2 => path_for(k1) # path_for(k2)
    /\ \A path \in DOMAIN files : Parent(path) = RootPath

\* C15 (NotFound carries the logical key): a get(k) that fails with NotFound
\* reports exactly k, in both stores.
NotFoundNamesKey ==
    ret.op = "get" /\ ret.res.tag = "NotFound" => ret.res.key = ret.key

\* C16 (first use): list() on a repository whose store never had the "tasks"
\* key written returns Ok with an empty collection, makes no put, changes no
\* file, directory, entry or key of the store, and leaves "tasks" absent.
ListFirstUse ==
    repo.ret.call.op = "list" /\ repo.ret.unwritten
        => /\ repo.ret.res = OkTasks(<<>>)
           /\ repo.ret.puts = 0 /\ repo.puts = 0
           /\ ~repo.ret.wrote /\ ~repo.ret.keyed
           /\ Lookup(TASKS_KEY).tag = "NotFound"

ListFirstUseSeen ==
    /\ repo.ret.call.op = "list" /\ repo.ret.unwritten
    /\ config.store = "file"
    /\ repo.ret.doc.tag = "NotFound"
    /\ repo.ret.res = OkTasks(<<>>)

\* C17 (create appends): when list() is L, a successful create(title,
\* description, tags) returns a record r with these fields, status Todo,
\* created_at = updated_at and an id that no record of L has; afterwards
\* list() is L followed by r.
CreateAppends ==
    repo.ret.call.op = "create" /\ repo.ret.res.tag = "Ok"
        => LET L == repo.ret.before.tasks
               r == repo.ret.res.task
           IN  /\ repo.ret.before.tag = "Ok"
               /\ r.title = repo.ret.call.args.title
               /\ r.description = repo.ret.call.args.description
               /\ r.tags = repo.ret.call.args.tags
               /\ r.status = "Todo"
               /\ r.created_at = r.updated_at
               /\ \A i \in 1..Len(L) : L[i].id # r.id
               /\ ListNow = OkTasks(L \o <<r>>)

CreateAppendsSeen ==
    /\ repo.ret.call.op = "create" /\ repo.ret.res.tag = "Ok"
    /\ config.store = "file"
    /\ Len(repo.ret.before.tasks) = 1
    /\ repo.ret.before.tasks[1].status = "Done"
    /\ ListNow.tasks = repo.ret.before.tasks \o <<repo.ret.res.task>>

\* C18 (set_status on an existing record): when the collection holds a
\* record with the id, set_status(id, s) returns that record with status s,
\* and afterwards list() is the previous list with the same length and
\* order, every other record unchanged, and this record changed in its
\* status (now s) and its updated_at (now the time the call read) only.
SetStatusUpdatesOne ==
    LET L == repo.ret.before.tasks
        c == repo.ret.call
    IN  /\ c.op = "set_status"
        /\ repo.ret.before.tag = "Ok"
        /\ \E i \in 1..Len(L) : L[i].id = c.id
        => \A listed \in {ListNow} :
           /\ repo.ret.res.tag = "Ok"
           /\ listed.tag = "Ok"
           /\ Len(listed.tasks) = Len(L)
           /\ \A i \in 1..Len(L) :
                 IF L[i].id = c.id
                 THEN /\ listed.tasks[i] = repo.ret.res.task
                      /\ listed.tasks[i].status = c.status
                      /\ listed.tasks[i].updated_at = c.now
                      /\ listed.tasks[i].id = L[i].id
                      /\ listed.tasks[i].title = L[i].title
                      /\ listed.tasks[i].description = L[i].description
                      /\ listed.tasks[i].tags = L[i].tags
                      /\ listed.tasks[i].created_at = L[i].created_at
                 ELSE listed.tasks[i] = L[i]

SetStatusUpdatesOneSeen ==
    /\ repo.ret.call.op = "set_status" /\ repo.ret.res.tag = "Ok"
    /\ config.store = "file"
    /\ Len(repo.ret.before.tasks) = 2
    /\ repo.ret.call.id = repo.ret.before.tasks[2].id
    /\ repo.ret.call.status = "InProgress"
    /\ repo.ret.before.tasks[1].status = "Todo"
    /\ ListNow.tasks[1] = repo.ret.before.tasks[1]
    /\ ListNow.tasks[2].status = "InProgress"

\* C19 (set_status on an unknown id): when no record of the collection has
\* the id (the collection may be empty or never written), set_status returns
\* the error "task not found", makes no put, changes no file, directory or
\* entry of the store, and get("tasks") gives what it gave before.
SetStatusUnknown ==
    LET L == repo.ret.before.tasks
        c == repo.ret.call
    IN  /\ c.op = "set_status"
        /\ repo.ret.before.tag = "Ok"
        /\ \A i \in 1..Len(L) : L[i].id # c.id
        => /\ repo.ret.res = Err("task not found")
           /\ repo.ret.puts = 0
           /\ ~repo.ret.wrote
           /\ repo.ret.unwritten => repo.puts = 0
           /\ Lookup(TASKS_KEY) = repo.ret.doc

SetStatusUnknownSeen ==
    /\ repo.ret.call.op = "set_status"
    /\ repo.ret.res = Err("task not found")
    /\ config.store = "file"
    /\ Len(repo.ret.before.tasks) = 1
    /\ repo.ret.call.id = 2
    /\ repo.ret.doc.tag = "Ok"
    /\ Lookup(TASKS_KEY) = repo.ret.doc

\* C20 (Done is later than created): after create and then
\* set_status(id, Done) on the created record, list() shows that record with
\* status Done and an updated_at strictly greater than its created_at.
DoneAfterCreated ==
    /\ repo.ret.call.op = "set_status"
    /\ repo.ret.call.status = "Done"
    /\ repo.ret.res.tag = "Ok"
    => \A listed \in {ListNow} :
       /\ listed.tag = "Ok"
       /\ \A i \in 1..Len(listed.tasks) :
             listed.tasks[i].id = repo.ret.call.id
                 => /\ listed.tasks[i].status = "Done"
                    /\ listed.tasks[i].updated_at > listed.tasks[i].created_at

\* C21 (lost update under concurrency): a create saves what it loaded
\* followed by its own record, whatever was saved since it loaded: after a
\* create returned Ok, list() is exactly the list that call loaded followed
\* by its record.  So there is an interleaving of two creates (LostUpdate)
\* after which both have returned Ok and list() holds one record only, the
\* last writer's.
LastWriterWins ==
    /\ repo.ret.call.op = "create" /\ repo.ret.res.tag = "Ok"
        => \A listed \in {ListNow} :
              /\ listed = OkTasks(repo.ret.before.tasks \o <<repo.ret.res.task>>)
              /\ Len(listed.tasks) <= repo.oks
    /\ repo.oks <= repo.puts

LostUpdate ==
    /\ \A p \in Procs : repo.calls[p].pc = "idle"
    /\ repo.oks = 2
    /\ repo.ret.call.op = "create" /\ repo.ret.res.tag = "Ok"
    /\ repo.ret.before.tasks = <<>>
    /\ ListNow = OkTasks(<<repo.ret.res.task>>)

\* C22 (errors are propagated, never read as empty): when get("tasks")
\* fails with an error other than NotFound, or the stored document cannot be
\* deserialized, list, create and set_status return an error, make no put
\* and change no file, directory or entry of the store.
ErrorsPropagate ==
    ( /\ repo.ret.call.op \in {"list", "create", "set_status"}
      /\ \/ repo.ret.doc.tag = "Storage"
         \/ repo.ret.doc.tag = "Ok" /\ ~tasks_from_slice(repo.ret.doc.val).ok )
        => /\ repo.ret.res.tag = "Err"
           /\ repo.ret.puts = 0
           /\ ~repo.ret.wrote

ErrorsPropagateSeen ==
    /\ repo.ret.call.op = "create"
    /\ config.store = "file"
    /\ repo.ret.doc.tag = "Ok" /\ ~tasks_from_slice(repo.ret.doc.val).ok
    /\ repo.ret.res.tag = "Err"
    /\ Lookup(TASKS_KEY) = repo.ret.doc


\* C23: the repository writes whole documents.  A successful create or
\* set_status has made exactly one put of the document it read with the
\* change applied, and what the store holds under "tasks" is in every state,
\* the states in the middle of a put included, either absent or a complete
\* serialized collection.
WholeDocument ==
    \A stored \in {Lookup(TASKS_KEY)} :
        /\ stored.tag \in {"NotFound", "Ok"}
        /\ stored.tag = "Ok" =>
               \A parsed \in {tasks_from_slice(stored.val)} :
                   /\ parsed.ok
                   /\ tasks_to_vec(parsed.tasks) = stored.val
                   /\ Len(parsed.tasks) <= repo.uuids
        /\ ( /\ repo.ret.call.op \in {"create", "set_status"}
             /\ repo.ret.res.tag = "Ok"
             /\ caller[1].pc = "idle" /\ repo.calls[1].pc # "saving" )
               => /\ repo.ret.puts = 1
                  /\ stored.tag = "Ok"
                  /\ \A L \in {tasks_from_slice(stored.val).tasks} :
                        /\ Len(L) = Len(repo.ret.before.tasks)
                                      + (IF repo.ret.call.op = "create" THEN 1 ELSE 0)
                        /\ \E i \in 1..Len(L) : L[i] = repo.ret.res.task

\* The put of a second create is half written: its temporary file holds a
\* part of the new document while the store still gives the first one.
WholeDocumentSeen ==
    /\ caller[1].pc = "wb_write" /\ caller[1].key = TASKS_KEY
    /\ caller[1].tmp \in DOMAIN files
    /\ files[caller[1].tmp] # <<>>
    /\ repo.calls[1].pc = "saving"
    /\ Len(repo.calls[1].h.tasks) = 2
    /\ Lookup(TASKS_KEY) = repo.calls[1].got
    /\ Lookup(TASKS_KEY).tag = "Ok"


\* C24: no stray temporary files.  When a put has returned, with Ok or with
\* an error from the creation of the temporary file, the write, the flush or
\* the rename, and no other operation is running, every file there is is the
\* file of a logical key: no temporary file is left, in the root or beside it.
NoStrayTemp ==
    (AllIdle /\ ret.op = "put")
        => DOMAIN files \subseteq {path_for(k) : k \in Keys}

\* A put of "k" over a stored value failed in the middle of the write, and
\* the file of "k" is the only one there is.
NoStrayTempSeen ==
    /\ AllIdle /\ ret.op = "put"
    /\ ret.res = storage_err("I/O error")
    /\ ret.blob # NoRet.blob
    /\ ret.note.before.tag = "Ok"
    /\ DOMAIN files = {path_for(ret.key)}


\* C25: key isolation.  A step of a put or a delete on a logical key leaves
\* what get would return for every other logical key as it was, in both
\* stores.
KeyIsolation ==
    [][\A p \in Procs : \A k \in Keys :
          \A o \in {IF caller'[p].pc # "idle" THEN [op |-> caller'[p].op,
                                                     key |-> caller'[p].key]
                    ELSE IF caller[p].pc # "idle" THEN [op |-> caller[p].op,
                                                        key |-> caller[p].key]
                    ELSE [op |-> ret'.op, key |-> ret'.key]} :
              ( /\ caller'[p] # caller[p] \/ (ret' # ret /\ ret'.proc = p)
                /\ o.op \in {"put", "delete"}
                /\ o.key # k )
                  => Lookup(k)' = Lookup(k)]_vars


\* C26: the volatile provider under concurrency.  However the get_or_create
\* calls of concurrent callers on one InMemoryKeyProvider interleave, a key is
\* generated at most once, the slot is empty until then and holds that key
\* ever after, and every call has returned that key.
VolatileKeyOnce ==
    config.provider = "memory" =>
        /\ rng.keys <= 1
        /\ slot = IF rng.keys = 0 THEN NoKey ELSE generate_key(1)
        /\ \A p \in Procs : caller[p].km # NoKey => caller[p].km = slot
        /\ ret.km # NoKey => ret.km = slot

\* Two callers are in the middle of their operations at once, and both hold
\* the one key of the slot.
VolatileKeyOnceSeen ==
    /\ config.provider = "memory"
    /\ slot # NoKey
    /\ \A p \in {1, 2} : caller[p].pc \notin {"idle", "mem_key"}
                          /\ caller[p].km = slot


\* C27: lock failures become Storage errors.  An operation that took the
\* mutex of the InMemoryKeyProvider or of the InMemorySecureStore when it was
\* poisoned has returned SecureStoreError::Storage, and no operation panics.
LockFailureIsStorage ==
    /\ ret.res.tag # "Panic"
    /\ ret.note.poisoned => ret.res.tag = "Storage"
    /\ \A p \in Procs : ~caller[p].note.poisoned

\* A put of the file store found the provider's mutex poisoned and returned
\* the provider's error as Storage, after an earlier put had stored a value.
LockFailureIsStorageSeen ==
    /\ ret.op = "put" /\ ret.store = "file"
    /\ ret.note.poisoned
    /\ ret.res = Storage("key provider: generation error: lock poisoned")
    /\ slot # NoKey
    /\ files # <<>>


\* C28: a failed put changes nothing.  When a put of the file store has
\* returned an error and nothing else is running, get of its key returns
\* what it returned before the put began.
FailedPutChangesNothing ==
    ( /\ AllIdle
      /\ ret.op = "put" /\ ret.store = "file"
      /\ ret.res.tag # "Ok" )
        => Lookup(ret.key) = ret.note.before


\* C29: get is read-only.  No step of a get of the file store, whether the
\* get succeeds or fails, changes a directory or a file, the keyring entry
\* or the slot of the volatile provider.
GetReadOnly ==
    [][\A p \in Procs :
          ( /\ caller'[p] # caller[p]
            /\ \/ caller[p].pc # "idle" /\ caller[p].op = "get"
               \/ caller'[p].pc # "idle" /\ caller'[p].op = "get" )
              => UNCHANGED <<dirs, files, keyring, slot>>]_vars


\* C30: test double fidelity.  After every call of a sequence of put, get
\* and delete calls made on both stores, the InMemorySecureStore has returned
\* what the EncryptedFileStore has returned: Ok with the same bytes, NotFound,
\* or Storage.
TwinFidelity ==
    /\ ret.twin.tag = ret.res.tag
    /\ ret.res.tag = "Ok" => ret.twin.val = ret.res.val

============================================================================
